---- MODULE Spec2Model ----
(***************************************************************************)
(* A model of the Emitter class and of matchWildcard of src/src/index.ts.  *)
(*                                                                         *)
(* Strings are sequences of one-character strings, so that splitting on    *)
(* the separators ':' and '.' and the test event.includes("*") are         *)
(* computed and not assumed.  A StoredListener is a record with a unique   *)
(* id: the id stands for the identity of the object (=== in the code).     *)
(*                                                                         *)
(* A dispatch runs user code (the listeners), which may call the emitter   *)
(* again; an asynchronous dispatch is suspended at each await.  The call   *)
(* stack of dispatches whose listener is running is `stack`; the           *)
(* asynchronous dispatches suspended at an await are `suspended`.          *)
(***************************************************************************)
EXTENDS Integers, Sequences, FiniteSets, TLC

\* ------------------------------------------------------------------ bounds

\* on()/once() calls over a behaviour
MaxSubs == 2
\* emit()/emitAsync() calls over a behaviour
MaxEmits == 2
\* dispatches nested on the call stack (a listener that publishes)
MaxDepth == 2
\* asynchronous dispatches in progress at once
MaxAsync == 2
\* the length of the patterns and event names given to matchWildcard alone
MaxLen == 3

\* ---------------------------------------------------------------- constants

\* private maxListeners = 10
DefaultMaxListeners == 10
\* private maxBufferSize = 1000
DefaultMaxBufferSize == 1000

\* ------------------------------------------------------------------ strings

NameA == <<"a">>
NameAB == <<"a", ":", "b">>
PatStar == <<"*">>
PatStarStar == <<"*", "*">>

\* what on()/once()/clear() are called with
SubNames == {NameA, NameAB, PatStar, PatStarStar}
\* what emit()/emitAsync() are called with
EmitNames == {NameA, NameAB}
\* the callbacks: "f" returns (resolves), "boom" throws (rejects)
Fns == {"f", "boom"}
\* given priorities; {} is a missing option
PriorityOpts == {{}, {0}, {1}}
OnceOpts == {{}, {TRUE}, {FALSE}}
\* arguments of setMaxBufferSize and setMaxListeners
BufferSizes == {0, 1}
ListenerLimits == {0}

\* options.x ?? d
Coalesce(opt, d) == IF opt = {} THEN d ELSE CHOOSE v \in opt : TRUE

\* event.includes("*")
includes(str, ch) == \E k \in 1..Len(str) : str[k] = ch

IsSep(ch) == ch = ":" \/ ch = "."

\* str.split(/[:.]/): the segments between separators, empty ones included
RECURSIVE splitFrom(_, _, _)
splitFrom(str, k, cur) ==
  IF k > Len(str) THEN <<cur>>
  ELSE IF IsSep(str[k]) THEN <<cur>> \o splitFrom(str, k + 1, <<>>)
  ELSE splitFrom(str, k + 1, Append(cur, str[k]))

split(str) == splitFrom(str, 1, <<>>)

\* --------------------------------------------------------- wildcard matching

\* a main loop in which "*" is an ordinary literal segment
RECURSIVE matchLoop_starLiteral(_, _, _, _, _, _)
matchLoop_starLiteral(pp, ep, pi, ei, starPi, starEi) ==
  IF ~(ei < Len(ep)) THEN pi
  ELSE IF pi < Len(pp) /\ pp[pi + 1] = PatStarStar
    THEN matchLoop_starLiteral(pp, ep, pi + 1, ei, pi, ei)
  ELSE IF pi < Len(pp) /\ pp[pi + 1] = ep[ei + 1]
    THEN matchLoop_starLiteral(pp, ep, pi + 1, ei + 1, starPi, starEi)
  ELSE IF starPi # -1
    THEN matchLoop_starLiteral(pp, ep, starPi + 1, starEi + 1, starPi, starEi + 1)
  ELSE -1

\* the main loop of matchWildcard; -1 is "no match", else the final pi
RECURSIVE matchLoop(_, _, _, _, _, _)
matchLoop(pp, ep, pi, ei, starPi, starEi) ==
  IF ~(ei < Len(ep)) THEN pi
  ELSE IF pi < Len(pp) /\ pp[pi + 1] = PatStarStar
    THEN matchLoop(pp, ep, pi + 1, ei, pi, ei)
  ELSE IF pi < Len(pp) /\ (pp[pi + 1] = PatStar \/ pp[pi + 1] = ep[ei + 1])
    THEN matchLoop(pp, ep, pi + 1, ei + 1, starPi, starEi)
  ELSE IF starPi # -1
    THEN matchLoop(pp, ep, starPi + 1, starEi + 1, starPi, starEi + 1)
  ELSE -1

\* the trailing loop: skip "**" segments
RECURSIVE skipStars(_, _)
skipStars(pp, pi) ==
  IF pi < Len(pp) /\ pp[pi + 1] = PatStarStar THEN skipStars(pp, pi + 1) ELSE pi

\* a matchWildcard that does not look whether the pattern was used up
matchWildcard_prefix(pattern, event) ==
  LET pp == split(pattern)
      ep == split(event)
      pi == matchLoop(pp, ep, 0, 0, -1, -1)
  IN  pi # -1

matchWildcard(pattern, event) ==
  LET pp == split(pattern)
      ep == split(event)
      pi == matchLoop(pp, ep, 0, 0, -1, -1)
  IN  IF pi = -1 THEN FALSE ELSE skipStars(pp, pi) = Len(pp)

\* ------------------------------------------------------------------- state

VARIABLES
  listeners,          \* Map<string, StoredListener[]>: a function on its keys
  wildcardListeners,  \* { pattern, stored }[]
  maxListeners,
  paused,
  buffer,             \* { event, payload }[]
  maxBufferSize,
  handles,            \* the Subscription closures returned so far, in order
  stack,              \* dispatches whose listener is running, innermost last
  suspended,          \* asynchronous dispatches suspended at an await
  nextP,              \* the payload of the next publish (publishes are numbered)
  ctorOptions,        \* the option names new Emitter(...) was given (the class reads none)
  observing,          \* which of the history variables are kept (fixed by Init)
  entered,            \* history: the payloads dispatch/dispatchAsync were called with, in order
  delivered,          \* history: how often listener id was called with payload p, on <<id, p>>
  ret,                \* history: how the publish or resume that ended last ended
  thrown,             \* history: the dispatches a listener's error ended, as they were then
  discarded           \* history: the payloads waiting for replay when dispose() was called

vars == <<listeners, wildcardListeners, maxListeners, paused, buffer,
          maxBufferSize, handles, stack, suspended, nextP, ctorOptions,
          observing, entered, delivered, ret, thrown, discarded>>

trace == <<entered, delivered>>

registry == <<listeners, wildcardListeners>>
config == <<maxListeners, maxBufferSize>>
fixed == <<ctorOptions, observing>>
control == <<stack, suspended, trace, ret>>

\* -------------------------------------------------------------- map, array

EmptyMap == [k \in {} |-> <<>>]
mapHas(m, k) == k \in DOMAIN m
mapSet(m, k, v) == [x \in (DOMAIN m) \cup {k} |-> IF x = k THEN v ELSE m[x]]
mapDelete(m, k) == [x \in (DOMAIN m) \ {k} |-> m[x]]
\* this.listeners.get(event) ?? []
mapGetOrEmpty(m, k) == IF mapHas(m, k) THEN m[k] ELSE <<>>
mapGetOrZero(m, k) == IF mapHas(m, k) THEN m[k] ELSE 0

\* Array.prototype.indexOf / findIndex on identity; 0 stands for -1
\* an indexOf that compares the callbacks
indexOf_byFn(list, s) ==
  IF \E k \in 1..Len(list) : list[k].fn = s.fn
  THEN CHOOSE k \in 1..Len(list) :
         /\ list[k].fn = s.fn
         /\ \A j \in 1..(k - 1) : list[j].fn # s.fn
  ELSE 0

indexOf(list, s) ==
  IF \E k \in 1..Len(list) : list[k] = s
  THEN CHOOSE k \in 1..Len(list) : list[k] = s /\ \A j \in 1..(k - 1) : list[j] # s
  ELSE 0

findIndexStored(wild, s) ==
  IF \E k \in 1..Len(wild) : wild[k].stored = s
  THEN CHOOSE k \in 1..Len(wild) :
         wild[k].stored = s /\ \A j \in 1..(k - 1) : wild[j].stored # s
  ELSE 0

\* list.splice(idx, 1)
splice(list, idx) == SubSeq(list, 1, idx - 1) \o SubSeq(list, idx + 1, Len(list))

\* if (idx !== -1) list.splice(idx, 1)
spliceIfFound(list, idx) == IF idx # 0 THEN splice(list, idx) ELSE list

RECURSIVE filterSeq(_, _)
filterSeq(s, keep) ==
  IF s = <<>> THEN <<>>
  ELSE IF Head(s) \in keep THEN <<Head(s)>> \o filterSeq(Tail(s), keep)
  ELSE filterSeq(Tail(s), keep)

Range(s) == {s[k] : k \in 1..Len(s)}

\* the priority a comparator reads: x.priority, or x.stored.priority
Pri(x) == IF "stored" \in DOMAIN x THEN x.stored.priority ELSE x.priority

\* Array.prototype.sort((a, b) => b.priority - a.priority): descending, stable
\* an insertion that puts the new entry before those of equal priority
RECURSIVE insertSorted_unstable(_, _)
insertSorted_unstable(sorted, x) ==
  IF sorted = <<>> THEN <<x>>
  ELSE IF Pri(x) >= Pri(Head(sorted)) THEN <<x>> \o sorted
  ELSE <<Head(sorted)>> \o insertSorted_unstable(Tail(sorted), x)

RECURSIVE insertSorted(_, _)
insertSorted(sorted, x) ==
  IF sorted = <<>> THEN <<x>>
  ELSE IF Pri(x) > Pri(Head(sorted)) THEN <<x>> \o sorted
  ELSE <<Head(sorted)>> \o insertSorted(Tail(sorted), x)

RECURSIVE sortByPriority(_)
sortByPriority(s) ==
  IF s = <<>> THEN <<>>
  ELSE insertSorted(sortByPriority(SubSeq(s, 1, Len(s) - 1)), s[Len(s)])

\* ----------------------------------------------------------------- internal

\* a collectListeners that leaves out the final sort
collectListeners_unsorted(L, W, event) ==
  LET matching == {w \in Range(W) : matchWildcard(w.pattern, event)}
      wildEntries == filterSeq(W, matching)
  IN  mapGetOrEmpty(L, event) \o [k \in 1..Len(wildEntries) |-> wildEntries[k].stored]

\* a collectListeners that puts the wildcard listeners before the exact ones
collectListeners_wildFirst(L, W, event) ==
  LET exact == mapGetOrEmpty(L, event)
      matching == {w \in Range(W) : matchWildcard(w.pattern, event)}
      wildEntries == filterSeq(W, matching)
      wild == [k \in 1..Len(wildEntries) |-> wildEntries[k].stored]
  IN  sortByPriority(wild \o exact)

\* collectListeners on the registries L, W
collectListeners(L, W, event) ==
  LET exact == mapGetOrEmpty(L, event)
      matching == {w \in Range(W) : matchWildcard(w.pattern, event)}
      wildEntries == filterSeq(W, matching)
      wild == [k \in 1..Len(wildEntries) |-> wildEntries[k].stored]
  IN  sortByPriority(exact \o wild)

RECURSIVE removeEach(_, _)
removeEach(list, gone) ==
  IF gone = <<>> THEN list
  ELSE removeEach(spliceIfFound(list, indexOf(list, Head(gone))), Tail(gone))

RECURSIVE removeEachStored(_, _)
removeEachStored(wild, gone) ==
  IF gone = <<>> THEN wild
  ELSE removeEachStored(spliceIfFound(wild, findIndexStored(wild, Head(gone))), Tail(gone))

\* a pruneOnce that leaves the wildcard entries in place
pruneOnce_exactOnly(L, W, event, fired) ==
  LET onceFired == filterSeq(fired, {s \in Range(fired) : s.once})
      list == removeEach(L[event], onceFired)
  IN  IF onceFired = <<>> THEN [listeners |-> L, wildcardListeners |-> W]
      ELSE [listeners |->
              IF mapHas(L, event)
              THEN IF Len(list) = 0 THEN mapDelete(L, event) ELSE mapSet(L, event, list)
              ELSE L,
            wildcardListeners |-> W]

\* a pruneOnce that leaves the key of a list it has emptied in the map
pruneOnce_keepsEmpty(L, W, event, fired) ==
  LET onceFired == filterSeq(fired, {s \in Range(fired) : s.once})
      list == removeEach(L[event], onceFired)
  IN  IF onceFired = <<>> THEN [listeners |-> L, wildcardListeners |-> W]
      ELSE [listeners |-> IF mapHas(L, event) THEN mapSet(L, event, list) ELSE L,
            wildcardListeners |-> removeEachStored(W, onceFired)]

\* pruneOnce on the registries L, W: the registries it leaves
pruneOnce(L, W, event, fired) ==
  LET onceFired == filterSeq(fired, {s \in Range(fired) : s.once})
      list == removeEach(L[event], onceFired)
  IN  IF onceFired = <<>> THEN [listeners |-> L, wildcardListeners |-> W]
      ELSE [listeners |->
              IF mapHas(L, event)
              THEN IF Len(list) = 0 THEN mapDelete(L, event) ELSE mapSet(L, event, list)
              ELSE L,
            wildcardListeners |-> removeEachStored(W, onceFired)]

\* ----------------------------------------------------------------- dispatch

\* one dispatch in progress: the locals of dispatch/dispatchAsync (event,
\* payload, listeners, the loop position i) and, for a replay, those of
\* resume/resumeAsync (the rest of pending).  drained and mark are history:
\* the payloads the resume took from the buffer, and Len(entered) when it did.
Frame(async, isResume, entry, ls, pending, drained, mark) ==
  [async |-> async, resume |-> isResume, event |-> entry.event,
   payload |-> entry.payload, ls |-> ls, i |-> 1, pending |-> pending,
   drained |-> drained, mark |-> mark]

Entry(event, payload) == [event |-> event, payload |-> payload]

Entered(payload) == <<0, payload>>
Called(stored, payload) == <<stored.id, payload>>

\* the history after the events es: <<0, p>> is a dispatch entered, <<id, p>> a call
RECURSIVE count(_, _)
count(bag, es) ==
  IF es = <<>> THEN bag
  ELSE IF Head(es)[1] = 0 THEN count(bag, Tail(es))
  ELSE count(mapSet(bag, Head(es), mapGetOrZero(bag, Head(es)) + 1), Tail(es))

RECURSIVE enteredIn(_)
enteredIn(es) ==
  IF es = <<>> THEN <<>>
  ELSE IF Head(es)[1] = 0 THEN <<Head(es)[2]>> \o enteredIn(Tail(es))
  ELSE enteredIn(Tail(es))

Log(es) ==
  /\ entered' = IF "entered" \in observing THEN entered \o enteredIn(es) ELSE entered
  /\ delivered' = IF "delivered" \in observing THEN count(delivered, es) ELSE delivered

Returned(op, val) == IF "ret" \in observing THEN [op |-> op, val |-> val] ELSE ret

Failed(f) == IF "thrown" \in observing THEN thrown \cup {f} ELSE thrown

opName(f) ==
  IF f.resume THEN (IF f.async THEN "resumeAsync" ELSE "resume")
  ELSE (IF f.async THEN "emitAsync" ELSE "emit")

payloads(entries) == [k \in 1..Len(entries) |-> entries[k].payload]

asyncInProgress ==
  Cardinality(suspended) + Cardinality({k \in 1..Len(stack) : stack[k].async})

\* the first entry of pending that has a listener on L, W; 0 if none
RECURSIVE firstWithListeners(_, _, _, _)
firstWithListeners(L, W, pending, k) ==
  IF k > Len(pending) THEN 0
  ELSE IF collectListeners(L, W, pending[k].event) # <<>> THEN k
  ELSE firstWithListeners(L, W, pending, k + 1)

\* the loop of resume() over pending, on the registries L, W and above the
\* frames base: a dispatch with no listener returns false at once, the first
\* one with listeners calls its first listener
replay(L, W, pending, base, drained, mark) ==
  LET k == firstWithListeners(L, W, pending, 1)
      skipped == [j \in 1..Len(pending) |-> Entered(pending[j].payload)]
  IN  IF k = 0
      THEN /\ stack' = base
           /\ Log(skipped)
           /\ ret' = Returned("resume", "this")
      ELSE LET ls == collectListeners(L, W, pending[k].event) IN
           /\ Len(base) < MaxDepth
           /\ stack' = Append(base, Frame(FALSE, TRUE, pending[k], ls,
                                SubSeq(pending, k + 1, Len(pending)), drained, mark))
           /\ Log(Append(SubSeq(skipped, 1, k), Called(ls[1], pending[k].payload)))
           /\ ret' = ret

\* a dispatch that returns true when it has no listener
dispatch_alwaysTrue(event, payload) ==
  LET ls == collectListeners(listeners, wildcardListeners, event) IN
  IF ls = <<>>
  THEN /\ ret' = Returned("emit", "true")
       /\ Log(<<Entered(payload)>>)
       /\ stack' = stack
  ELSE /\ Len(stack) < MaxDepth
       /\ stack' = Append(stack, Frame(FALSE, FALSE, Entry(event, payload), ls, <<>>, <<>>, 0))
       /\ Log(<<Entered(payload), Called(ls[1], payload)>>)
       /\ ret' = ret

\* dispatch(event, payload) up to its first listener call
dispatch(event, payload) ==
  LET ls == collectListeners(listeners, wildcardListeners, event) IN
  IF ls = <<>>
  THEN /\ ret' = Returned("emit", "false")
       /\ Log(<<Entered(payload)>>)
       /\ stack' = stack
  ELSE /\ Len(stack) < MaxDepth
       /\ stack' = Append(stack, Frame(FALSE, FALSE, Entry(event, payload), ls, <<>>, <<>>, 0))
       /\ Log(<<Entered(payload), Called(ls[1], payload)>>)
       /\ ret' = ret

\* a dispatchAsync that calls all its listeners at once and awaits the last
dispatchAsync_parallel(event, payload) ==
  LET ls == collectListeners(listeners, wildcardListeners, event) IN
  IF ls = <<>>
  THEN /\ ret' = Returned("emitAsync", "false")
       /\ Log(<<Entered(payload)>>)
       /\ stack' = stack
  ELSE /\ Len(stack) < MaxDepth
       /\ asyncInProgress < MaxAsync
       /\ stack' = Append(stack, [Frame(TRUE, FALSE, Entry(event, payload), ls, <<>>, <<>>, 0)
                                   EXCEPT !.i = Len(ls)])
       /\ Log(<<Entered(payload)>> \o [k \in 1..Len(ls) |-> Called(ls[k], payload)])
       /\ ret' = ret

\* dispatchAsync(event, payload) up to its first listener call
dispatchAsync(event, payload) ==
  LET ls == collectListeners(listeners, wildcardListeners, event) IN
  IF ls = <<>>
  THEN /\ ret' = Returned("emitAsync", "false")
       /\ Log(<<Entered(payload)>>)
       /\ stack' = stack
  ELSE /\ Len(stack) < MaxDepth
       /\ asyncInProgress < MaxAsync
       /\ stack' = Append(stack, Frame(TRUE, FALSE, Entry(event, payload), ls, <<>>, <<>>, 0))
       /\ Log(<<Entered(payload), Called(ls[1], payload)>>)
       /\ ret' = ret

\* a bufferEvent that takes one event too many
bufferEvent_offByOne(event, payload) ==
  IF Len(buffer) <= maxBufferSize THEN Append(buffer, Entry(event, payload)) ELSE buffer

\* if (this.buffer.length < this.maxBufferSize) this.buffer.push({ event, payload })
bufferEvent(event, payload) ==
  IF Len(buffer) < maxBufferSize THEN Append(buffer, Entry(event, payload)) ELSE buffer

\* ---------------------------------------------------------------------- API

\* the state after construction
InitWith(options, obs) ==
  /\ listeners = EmptyMap
  /\ wildcardListeners = <<>>
  /\ maxListeners = DefaultMaxListeners
  /\ paused = FALSE
  /\ buffer = <<>>
  /\ maxBufferSize = DefaultMaxBufferSize
  /\ handles = <<>>
  /\ stack = <<>>
  /\ suspended = {}
  /\ nextP = 1
  /\ ctorOptions = options
  /\ observing = obs
  /\ entered = <<>>
  /\ delivered = EmptyMap
  /\ ret = [op |-> "new", val |-> "this"]
  /\ thrown = {}
  /\ discarded = {}

Init == InitWith({}, {"entered", "delivered", "ret", "thrown", "discarded", "since", "until", "live",
                     "pauses", "options"})

setMaxListeners(n) ==
  /\ maxListeners' = n
  /\ UNCHANGED <<registry, paused, buffer, maxBufferSize, handles, control, nextP, thrown, discarded, fixed>>

setMaxBufferSize(n) ==
  /\ maxBufferSize' = n
  /\ UNCHANGED <<registry, paused, buffer, maxListeners, handles, control, nextP, thrown, discarded, fixed>>

\* the closure of off() holds isWild, event, stored and the options given;
\* since and until are history: the number of the next publish when on() was
\* called, and when its off() was first called (0 before that); live is
\* history too: TRUE until the subscription is removed by its off(), by a
\* clear() of its name, by clear(), by dispose() or by once-pruning
on(event, fn, onceOpt, priorityOpt) ==
  LET stored == [id |-> Len(handles) + 1, fn |-> fn,
                 once |-> Coalesce(onceOpt, FALSE),
                 priority |-> Coalesce(priorityOpt, 0)]
      isWild == includes(event, "*")
  IN  /\ Len(handles) < MaxSubs
      /\ IF isWild
         THEN /\ wildcardListeners' = sortByPriority(
                   Append(wildcardListeners, [pattern |-> event, stored |-> stored]))
              /\ listeners' = listeners
         ELSE /\ listeners' = mapSet(listeners, event,
                   sortByPriority(Append(mapGetOrEmpty(listeners, event), stored)))
              /\ wildcardListeners' = wildcardListeners
      /\ handles' = Append(handles, [isWild |-> isWild, event |-> event,
                                     stored |-> stored,
                                     given |-> IF "options" \in observing
                                               THEN <<onceOpt, priorityOpt>> ELSE <<>>,
                                     since |-> IF "since" \in observing THEN nextP ELSE 0,
                                     until |-> 0,
                                     live |-> TRUE])
      /\ UNCHANGED <<config, paused, buffer, control, nextP, thrown, discarded, fixed>>

once(event, fn, priorityOpt) == on(event, fn, {TRUE}, priorityOpt)

\* handles with the first off() of the h-th Subscription recorded
\* the handles after the subscriptions hs were removed from the registries
Unlive(handles_, hs) ==
  IF "live" \in observing
  THEN [h \in 1..Len(handles_) |->
          IF h \in hs THEN [handles_[h] EXCEPT !.live = FALSE] ELSE handles_[h]]
  ELSE handles_

Removed(h) ==
  Unlive(IF "until" \in observing /\ handles[h].until = 0
         THEN [handles EXCEPT ![h].until = nextP] ELSE handles, {h})

\* the once-subscriptions among the listeners fired of a finished dispatch
Pruned(fired) ==
  Unlive(handles, {h \in 1..Len(handles) :
                     handles[h].stored \in Range(fired) /\ handles[h].stored.once})

\* an off() that is ignored while the emitter is paused
off_ignoredWhilePaused(h) ==
  LET sub == handles[h] IN
  IF paused
  THEN /\ handles' = Removed(h)
       /\ UNCHANGED <<registry, config, paused, buffer, control, nextP, thrown, discarded, fixed>>
  ELSE
  /\ IF sub.isWild
     THEN /\ wildcardListeners' = spliceIfFound(wildcardListeners,
                                    findIndexStored(wildcardListeners, sub.stored))
          /\ listeners' = listeners
     ELSE /\ listeners' =
               IF mapHas(listeners, sub.event)
               THEN LET list == spliceIfFound(listeners[sub.event],
                                              indexOf(listeners[sub.event], sub.stored))
                    IN  IF Len(list) = 0 THEN mapDelete(listeners, sub.event)
                        ELSE mapSet(listeners, sub.event, list)
               ELSE listeners
          /\ wildcardListeners' = wildcardListeners
  /\ handles' = Removed(h)
  /\ UNCHANGED <<config, paused, buffer, control, nextP, thrown, discarded, fixed>>

\* an off() that also takes the listener out of the dispatches in progress,
\* as if they iterated over the registry itself
off_fromDispatches(h) ==
  LET sub == handles[h]
      withoutPending(ls, i, s) ==
        SelectSeq(ls, LAMBDA x : x # s \/ indexOf(ls, s) <= i)
  IN
  /\ IF sub.isWild
     THEN /\ wildcardListeners' = spliceIfFound(wildcardListeners,
                                    findIndexStored(wildcardListeners, sub.stored))
          /\ listeners' = listeners
     ELSE /\ listeners' =
               IF mapHas(listeners, sub.event)
               THEN LET list == spliceIfFound(listeners[sub.event],
                                              indexOf(listeners[sub.event], sub.stored))
                    IN  IF Len(list) = 0 THEN mapDelete(listeners, sub.event)
                        ELSE mapSet(listeners, sub.event, list)
               ELSE listeners
          /\ wildcardListeners' = wildcardListeners
  /\ handles' = Removed(h)
  /\ stack' = [k \in 1..Len(stack) |->
                 [stack[k] EXCEPT !.ls = withoutPending(stack[k].ls, stack[k].i, sub.stored)]]
  /\ suspended' = {[f EXCEPT !.ls = withoutPending(f.ls, f.i, sub.stored)] : f \in suspended}
  /\ UNCHANGED <<config, paused, buffer, trace, ret, nextP, thrown, discarded, fixed>>

\* the off() of the h-th Subscription
off(h) ==
  LET sub == handles[h] IN
  /\ IF sub.isWild
     THEN /\ wildcardListeners' = spliceIfFound(wildcardListeners,
                                    findIndexStored(wildcardListeners, sub.stored))
          /\ listeners' = listeners
     ELSE /\ listeners' =
               IF mapHas(listeners, sub.event)
               THEN LET list == spliceIfFound(listeners[sub.event],
                                              indexOf(listeners[sub.event], sub.stored))
                    IN  IF Len(list) = 0 THEN mapDelete(listeners, sub.event)
                        ELSE mapSet(listeners, sub.event, list)
               ELSE listeners
          /\ wildcardListeners' = wildcardListeners
  /\ handles' = Removed(h)
  /\ UNCHANGED <<config, paused, buffer, control, nextP, thrown, discarded, fixed>>

emit(event) ==
  /\ nextP <= MaxEmits
  /\ nextP' = nextP + 1
  /\ IF paused
     THEN /\ buffer' = bufferEvent(event, nextP)
          /\ ret' = Returned("emit", "false")
          /\ UNCHANGED <<stack, trace>>
     ELSE /\ dispatch(event, nextP)
          /\ buffer' = buffer
  /\ UNCHANGED <<registry, config, paused, handles, suspended, thrown, discarded, fixed>>

emitAsync(event) ==
  /\ nextP <= MaxEmits
  /\ nextP' = nextP + 1
  /\ IF paused
     THEN /\ buffer' = bufferEvent(event, nextP)
          /\ ret' = Returned("emitAsync", "false")
          /\ UNCHANGED <<stack, trace>>
     ELSE /\ dispatchAsync(event, nextP)
          /\ buffer' = buffer
  /\ UNCHANGED <<registry, config, paused, handles, suspended, thrown, discarded, fixed>>

\* a pause() that stops the replays in progress: the events they have not yet
\* dispatched go back to the buffer
pause_stopsReplay ==
  LET held == Range(stack) \cup suspended
      RECURSIVE back(_)
      back(fs) == IF fs = {} THEN <<>>
                  ELSE LET f == CHOOSE x \in fs : TRUE IN f.pending \o back(fs \ {f})
  IN  /\ paused' = TRUE
      /\ buffer' = back(held) \o buffer
      /\ stack' = [k \in 1..Len(stack) |-> [stack[k] EXCEPT !.pending = <<>>]]
      /\ suspended' = {[f EXCEPT !.pending = <<>>] : f \in suspended}
      /\ UNCHANGED <<registry, config, handles, trace, ret, nextP, thrown, discarded, fixed>>

\* pause(); history: a pause() that pauses the emitter while a replay is in
\* progress is marked by a 0 in entered
pause ==
  /\ paused' = TRUE
  /\ entered' = IF /\ "pauses" \in observing
                   /\ ~paused
                   /\ \E f \in Range(stack) \cup suspended : f.resume
                THEN Append(entered, 0) ELSE entered
  /\ UNCHANGED <<registry, config, buffer, handles, stack, suspended, delivered, ret,
                 nextP, thrown, discarded, fixed>>

\* a resume() that leaves the events in the buffer
resume_keepsBuffer ==
  /\ paused' = FALSE
  /\ buffer' = buffer
  /\ replay(listeners, wildcardListeners, buffer, stack, payloads(buffer), Len(entered))
  /\ UNCHANGED <<registry, config, handles, suspended, nextP, thrown, discarded, fixed>>

resume ==
  /\ paused' = FALSE
  /\ buffer' = <<>>
  /\ replay(listeners, wildcardListeners, buffer, stack, payloads(buffer), Len(entered))
  /\ UNCHANGED <<registry, config, handles, suspended, nextP, thrown, discarded, fixed>>

\* a resumeAsync that replays the buffer from its end
resumeAsync_reversed ==
  LET rev == [k \in 1..Len(buffer) |-> buffer[Len(buffer) + 1 - k]] IN
  /\ paused' = FALSE
  /\ buffer' = <<>>
  /\ IF buffer = <<>>
     THEN /\ ret' = Returned("resumeAsync", "this")
          /\ UNCHANGED <<stack, suspended, trace>>
     ELSE LET ls == collectListeners(listeners, wildcardListeners, rev[1].event)
              f == Frame(TRUE, TRUE, rev[1], ls, Tail(rev), payloads(buffer), Len(entered))
          IN  /\ asyncInProgress < MaxAsync
              /\ ret' = ret
              /\ IF ls = <<>>
                 THEN /\ suspended' = suspended \cup {f}
                      /\ Log(<<Entered(f.payload)>>)
                      /\ stack' = stack
                 ELSE /\ Len(stack) < MaxDepth
                      /\ stack' = Append(stack, f)
                      /\ Log(<<Entered(f.payload), Called(ls[1], f.payload)>>)
                      /\ suspended' = suspended
  /\ UNCHANGED <<registry, config, handles, nextP, thrown, discarded, fixed>>

resumeAsync ==
  /\ paused' = FALSE
  /\ buffer' = <<>>
  /\ IF buffer = <<>>
     THEN /\ ret' = Returned("resumeAsync", "this")
          /\ UNCHANGED <<stack, suspended, trace>>
     ELSE LET ls == collectListeners(listeners, wildcardListeners, buffer[1].event)
              f == Frame(TRUE, TRUE, buffer[1], ls, Tail(buffer), payloads(buffer), Len(entered))
          IN  /\ asyncInProgress < MaxAsync
              /\ ret' = ret
              /\ IF ls = <<>>
                 THEN /\ suspended' = suspended \cup {f}
                      /\ Log(<<Entered(f.payload)>>)
                      /\ stack' = stack
                 ELSE /\ Len(stack) < MaxDepth
                      /\ stack' = Append(stack, f)
                      /\ Log(<<Entered(f.payload), Called(ls[1], f.payload)>>)
                      /\ suspended' = suspended
  /\ UNCHANGED <<registry, config, handles, nextP, thrown, discarded, fixed>>

\* a clear(event) that removes the wildcard entries whose pattern matches event
clear_matching(event) ==
  /\ listeners' = mapDelete(listeners, event)
  /\ wildcardListeners' =
       filterSeq(wildcardListeners,
                 {w \in Range(wildcardListeners) : ~matchWildcard(w.pattern, event)})
  /\ UNCHANGED <<config, paused, buffer, handles, control, nextP, thrown, discarded, fixed>>

clear(event) ==
  /\ listeners' = mapDelete(listeners, event)
  /\ wildcardListeners' =
       filterSeq(wildcardListeners, {w \in Range(wildcardListeners) : w.pattern # event})
  /\ handles' = Unlive(handles, {h \in 1..Len(handles) : handles[h].event = event})
  /\ UNCHANGED <<config, paused, buffer, control, nextP, thrown, discarded, fixed>>

clearAll ==
  /\ listeners' = EmptyMap
  /\ wildcardListeners' = <<>>
  /\ handles' = Unlive(handles, 1..Len(handles))
  /\ UNCHANGED <<config, paused, buffer, control, nextP, thrown, discarded, fixed>>

\* listenerCount(event): this.listeners.get(event)?.length ?? 0
listenerCount(event) == IF mapHas(listeners, event) THEN Len(listeners[event]) ELSE 0

\* eventNames(): the keys of the exact map (as a set: their order is left out)
eventNames == DOMAIN listeners

\* the events waiting for replay: in the buffer, or taken from it by a
\* resume()/resumeAsync() that has not dispatched them yet
waiting == Range(payloads(buffer)) \cup
           UNION {Range(payloads(f.pending)) : f \in Range(stack) \cup suspended}

Discarded == IF "discarded" \in observing THEN discarded \cup waiting ELSE discarded

\* a dispose() that leaves the emitter paused
dispose_staysPaused ==
  /\ listeners' = EmptyMap
  /\ wildcardListeners' = <<>>
  /\ buffer' = <<>>
  /\ paused' = paused
  /\ discarded' = Discarded
  /\ UNCHANGED <<config, handles, control, nextP, thrown, fixed>>

\* a dispose() that leaves the buffered events in the buffer
dispose_keepsBuffer ==
  /\ listeners' = EmptyMap
  /\ wildcardListeners' = <<>>
  /\ buffer' = buffer
  /\ paused' = FALSE
  /\ discarded' = discarded
  /\ handles' = Unlive(handles, 1..Len(handles))
  /\ UNCHANGED <<config, control, nextP, thrown, fixed>>

dispose ==
  /\ listeners' = EmptyMap
  /\ wildcardListeners' = <<>>
  /\ buffer' = <<>>
  /\ paused' = FALSE
  /\ discarded' = Discarded
  /\ handles' = Unlive(handles, 1..Len(handles))
  /\ UNCHANGED <<config, control, nextP, thrown, fixed>>

\* ---------------------------------------------------------------- listeners

top == stack[Len(stack)]
below == SubSeq(stack, 1, Len(stack) - 1)

\* the running listener returns: a synchronous dispatch goes on to its next
\* listener, or prunes and returns true (and resume() goes on with pending);
\* an asynchronous dispatch is suspended at its await
listenerReturns ==
  /\ stack # <<>>
  /\ top.ls[top.i].fn = "f"
  /\ IF top.async
     THEN /\ suspended' = suspended \cup {top}
          /\ stack' = below
          /\ UNCHANGED <<registry, handles, trace, ret>>
     ELSE IF top.i < Len(top.ls)
     THEN /\ stack' = Append(below, [top EXCEPT !.i = top.i + 1])
          /\ Log(<<Called(top.ls[top.i + 1], top.payload)>>)
          /\ UNCHANGED <<registry, handles, suspended, ret>>
     ELSE LET pruned == pruneOnce(listeners, wildcardListeners, top.event, top.ls) IN
          /\ listeners' = pruned.listeners
          /\ wildcardListeners' = pruned.wildcardListeners
          /\ handles' = Pruned(top.ls)
          /\ suspended' = suspended
          /\ IF top.resume
             THEN replay(pruned.listeners, pruned.wildcardListeners, top.pending, below,
                         top.drained, top.mark)
             ELSE /\ stack' = below
                  /\ UNCHANGED trace
                  /\ ret' = Returned("emit", "true")
  /\ UNCHANGED <<config, paused, buffer, nextP, thrown, discarded, fixed>>

\* a dispatch that prunes its once-listeners when a listener throws, as if
\* pruneOnce were in a finally block
listenerThrows_prunes ==
  LET pruned == pruneOnce(listeners, wildcardListeners, top.event, top.ls) IN
  /\ stack # <<>>
  /\ top.ls[top.i].fn = "boom"
  /\ stack' = below
  /\ ret' = Returned(opName(top), "error")
  /\ thrown' = Failed(top)
  /\ listeners' = pruned.listeners
  /\ wildcardListeners' = pruned.wildcardListeners
  /\ UNCHANGED <<config, paused, buffer, handles, suspended, trace, nextP, discarded, fixed>>

\* a dispatch that goes on to the next listener after an error, as if each
\* call were in a try/catch
listenerThrows_isolated ==
  /\ stack # <<>>
  /\ top.ls[top.i].fn = "boom"
  /\ thrown' = Failed(top)
  /\ IF top.i < Len(top.ls)
     THEN /\ stack' = Append(below, [top EXCEPT !.i = top.i + 1])
          /\ Log(<<Called(top.ls[top.i + 1], top.payload)>>)
          /\ ret' = ret
     ELSE /\ stack' = below
          /\ UNCHANGED trace
          /\ ret' = Returned(opName(top), "true")
  /\ UNCHANGED <<registry, config, paused, buffer, handles, suspended, nextP, discarded, fixed>>

\* a failure in a replay that puts the events not yet dispatched back into
\* the buffer
listenerThrows_requeues ==
  /\ stack # <<>>
  /\ top.ls[top.i].fn = "boom"
  /\ stack' = below
  /\ ret' = Returned(opName(top), "error")
  /\ thrown' = Failed(top)
  /\ buffer' = top.pending \o buffer
  /\ UNCHANGED <<registry, config, paused, handles, suspended, trace, nextP, discarded, fixed>>

\* the running listener throws (an asynchronous one rejects): the error leaves
\* dispatch/dispatchAsync, and resume/resumeAsync, at once
listenerThrows ==
  /\ stack # <<>>
  /\ top.ls[top.i].fn = "boom"
  /\ stack' = below
  /\ ret' = Returned(opName(top), "error")
  /\ thrown' = Failed(top)
  /\ UNCHANGED <<registry, config, paused, buffer, handles, suspended, trace, nextP, discarded, fixed>>

\* the await of a suspended asynchronous dispatch f ends, in a turn of its own
settle(f) ==
  /\ stack = <<>>
  /\ f \in suspended
  /\ IF f.i <= Len(f.ls)
     THEN \* await stored.fn(payload)
          IF f.i < Len(f.ls)
          THEN /\ stack' = <<[f EXCEPT !.i = f.i + 1]>>
               /\ suspended' = suspended \ {f}
               /\ Log(<<Called(f.ls[f.i + 1], f.payload)>>)
               /\ UNCHANGED <<registry, handles, ret>>
          ELSE LET pruned == pruneOnce(listeners, wildcardListeners, f.event, f.ls) IN
               /\ listeners' = pruned.listeners
               /\ wildcardListeners' = pruned.wildcardListeners
               /\ handles' = Pruned(f.ls)
               /\ UNCHANGED <<stack, trace>>
               /\ IF f.resume
                  THEN /\ suspended' = (suspended \ {f}) \cup {[f EXCEPT !.i = Len(f.ls) + 1]}
                       /\ ret' = ret
                  ELSE /\ suspended' = suspended \ {f}
                       /\ ret' = Returned("emitAsync", "true")
     ELSE \* await this.dispatchAsync(event, payload), in resumeAsync
          IF f.pending = <<>>
          THEN /\ suspended' = suspended \ {f}
               /\ ret' = Returned("resumeAsync", "this")
               /\ UNCHANGED <<registry, handles, stack, trace>>
          ELSE LET ls == collectListeners(listeners, wildcardListeners, f.pending[1].event)
                   g == Frame(TRUE, TRUE, f.pending[1], ls, Tail(f.pending), f.drained, f.mark)
               IN  /\ UNCHANGED <<registry, handles, ret>>
                   /\ IF ls = <<>>
                      THEN /\ suspended' = (suspended \ {f}) \cup {g}
                           /\ Log(<<Entered(g.payload)>>)
                           /\ stack' = stack
                      ELSE /\ suspended' = suspended \ {f}
                           /\ stack' = <<g>>
                           /\ Log(<<Entered(g.payload), Called(ls[1], g.payload)>>)
  /\ UNCHANGED <<config, paused, buffer, nextP, thrown, discarded, fixed>>

\* ------------------------------------------------------------ specification

\* on() and once() with the event, callback and options drawn from the sets
subscribe(Es, Fs, Os, Ps) ==
  \/ \E e \in Es, fn \in Fs, o \in Os, p \in Ps : on(e, fn, o, p)
  \/ \E e \in Es, fn \in Fs, p \in Ps : once(e, fn, p)

unsubscribe ==
  \/ \E h \in 1..Len(handles) : off(h)
  \/ \E e \in SubNames : clear(e)
  \/ clearAll

publish ==
  \/ \E e \in EmitNames : emit(e)
  \/ \E e \in EmitNames : emitAsync(e)

pauseResume ==
  \/ pause
  \/ resume
  \/ resumeAsync

configure ==
  \/ \E n \in ListenerLimits : setMaxListeners(n)
  \/ \E n \in BufferSizes : setMaxBufferSize(n)

listenerStep ==
  \/ listenerReturns
  \/ listenerThrows
  \/ \E f \in suspended : settle(f)

\* the calls user code can make
apiCall ==
  \/ subscribe(SubNames, Fns, OnceOpts, PriorityOpts)
  \/ unsubscribe
  \/ publish
  \/ pauseResume
  \/ configure
  \/ dispose

\* any use: calls from the top level, from a running listener, and from
\* other tasks while asynchronous dispatches are suspended
Next == apiCall \/ listenerStep

Spec == Init /\ [][Next]_vars

\* no dispatch is in progress
idle == stack = <<>> /\ suspended = {}

\* the listeners run to their end, none throwing
runs ==
  \/ listenerReturns
  \/ \E f \in suspended : settle(f)

\* Sequential use of on, once, off, emit and emitAsync with priorities.
NextOrder ==
  \/ idle /\ subscribe({NameA, PatStar, PatStarStar}, {"f"}, {{}}, PriorityOpts)
  \/ idle /\ \E h \in 1..Len(handles) : off(h)
  \/ idle /\ publish
  \/ runs

SpecOrder == InitWith({}, {"options"}) /\ [][NextOrder]_vars

\* Sequential use of pause, the publishes, the resumes, setMaxBufferSize and
\* dispose, with listeners on "a" and "*".
NextPaused ==
  \/ idle /\ subscribe({NameA, PatStar}, {"f"}, {{}}, {{}})
  \/ idle /\ publish
  \/ idle /\ pauseResume
  \/ idle /\ \E n \in BufferSizes : setMaxBufferSize(n)
  \/ idle /\ dispose
  \/ runs

SpecPaused == InitWith({}, {"ret"}) /\ [][NextPaused]_vars

\* Sequential use of pause and resume around publishes, with subscriptions
\* made and removed at any time.
NextReplay ==
  \/ idle /\ subscribe({NameA, PatStar}, {"f"}, {{}}, {{}})
  \/ idle /\ \E h \in 1..Len(handles) : off(h)
  \/ idle /\ publish
  \/ idle /\ pause
  \/ idle /\ resume
  \/ runs

SpecReplay == InitWith({}, {"entered"}) /\ [][NextReplay]_vars

\* Sequential use of on, once, off, emit and emitAsync on an emitter that is
\* not paused, with exact and wildcard subscriptions.
NextOnce ==
  \/ idle /\ subscribe({NameA, PatStarStar}, {"f"}, OnceOpts, {{}})
  \/ idle /\ \E h \in 1..Len(handles) : off(h)
  \/ idle /\ publish
  \/ runs

SpecOnce == InitWith({}, {"delivered"}) /\ [][NextOnce]_vars

\* the listeners run, returning or throwing
runsOrThrows ==
  \/ runs
  \/ listenerThrows

\* Sequential use of emit and emitAsync with listeners that throw among the
\* subscriptions; the emitter was constructed without options.
NextErrors ==
  \/ idle /\ subscribe({NameA, PatStarStar}, Fns, {{}}, {{}})
  \/ idle /\ publish
  \/ runsOrThrows

SpecErrors == InitWith({}, {"delivered", "ret", "thrown"}) /\ [][NextErrors]_vars

\* The same use of an emitter constructed as new Emitter({ onError }).
SpecHandled == InitWith({"onError"}, {"delivered", "ret", "thrown"}) /\ [][NextErrors]_vars

\* Use of off() at any time, also by a running listener and between the awaits
\* of an emitAsync, and again on the same handle, among subscriptions that
\* share one callback, with clear() and dispose().
NextOff ==
  \/ idle /\ subscribe({NameA, PatStar}, {"f"}, {{}}, {{}})
  \/ \E h \in 1..Len(handles) : off(h)
  \/ idle /\ \E e \in {NameA, PatStar} : clear(e)
  \/ idle /\ clearAll
  \/ idle /\ dispose
  \/ idle /\ publish
  \/ runs

SpecOff == InitWith({}, {}) /\ [][NextOff]_vars

\* Sequential use of pause, emit and resume with subscriptions made by on()
\* and removed by off() at any time, recording the calls of the listeners and
\* when each subscription was made and removed.
NextResubscribe ==
  \/ idle /\ on(PatStar, "f", {}, {})
  \/ idle /\ \E h \in 1..Len(handles) : off(h)
  \/ idle /\ \E e \in EmitNames : emit(e)
  \/ idle /\ pause
  \/ idle /\ resume
  \/ listenerReturns

SpecResubscribe == InitWith({}, {"delivered", "since", "until"}) /\ [][NextResubscribe]_vars

\* emitAsync calls that may overlap: a new one can start while the listeners
\* of another are awaited.
NextAsync ==
  \/ idle /\ subscribe({NameA, PatStarStar}, {"f"}, {{}}, {{}})
  \/ \E e \in EmitNames : emitAsync(e)
  \/ runs

SpecAsync == InitWith({}, {"delivered", "ret"}) /\ [][NextAsync]_vars

\* Sequential use of pause and resumeAsync around publishes.
NextResumeAsync ==
  \/ idle /\ subscribe({NameA, PatStarStar}, {"f"}, {{}}, {{}})
  \/ idle /\ publish
  \/ idle /\ pause
  \/ idle /\ resumeAsync
  \/ runs

SpecResumeAsync == InitWith({}, {"entered", "delivered", "ret"}) /\ [][NextResumeAsync]_vars

\* Publishes at any time: by a running listener, and while the listeners of
\* an emitAsync are awaited.
NextOverlap ==
  \/ idle /\ subscribe({NameA, PatStarStar}, {"f"}, {{}}, {{}})
  \/ publish
  \/ runs

SpecOverlap == InitWith({}, {"delivered"}) /\ [][NextOverlap]_vars

\* Sequential use of dispose() among on(), the publishes, pause and the
\* resumes, and the two setters; only dispose() removes a subscription.
NextDispose ==
  \/ idle /\ \E e \in {NameA, PatStar} : on(e, "f", {}, {})
  \/ idle /\ publish
  \/ idle /\ pauseResume
  \/ idle /\ configure
  \/ idle /\ dispose
  \/ runs

SpecDispose == InitWith({}, {"delivered"}) /\ [][NextDispose]_vars

\* dispose() and on() at any time: at top level, by a running listener, and
\* by another task between the awaits of a resumeAsync; pause, emit and the
\* resumes at top level.
NextDisposeReplay ==
  \/ on(NameA, "f", {}, {})
  \/ dispose
  \/ idle /\ emit(NameA)
  \/ idle /\ pauseResume
  \/ runs

SpecDisposeReplay == InitWith({}, {"delivered", "discarded"}) /\ [][NextDisposeReplay]_vars

\* Sequential use of clear(name) and clear() among subscriptions, pause,
\* emit and resume; name is an event name or a pattern.
NextClear ==
  \/ idle /\ subscribe({NameA, PatStar}, {"f"}, {{}}, {{}})
  \/ idle /\ \E e \in {NameA, NameAB, PatStar} : clear(e)
  \/ idle /\ clearAll
  \/ idle /\ \E e \in EmitNames : emit(e)
  \/ idle /\ pause
  \/ idle /\ resume
  \/ listenerReturns

SpecClear == InitWith({}, {}) /\ [][NextClear]_vars

\* Sequential use of emit with events that some, all or none of the
\* subscriptions match, on an emitter that is paused or not.
NextNoMatch ==
  \/ idle /\ subscribe({NameA, PatStar}, {"f"}, {{}}, {{}})
  \/ idle /\ \E e \in EmitNames : emit(e)
  \/ idle /\ pause
  \/ idle /\ resume
  \/ listenerReturns

SpecNoMatch == InitWith({}, {"ret"}) /\ [][NextNoMatch]_vars

\* the characters of the patterns and event names given to matchWildcard
Chars == {"a", ":", ".", "*"}

\* the strings of at most MaxLen characters
Strings == UNION {[1..k -> Chars] : k \in 0..MaxLen}

\* a call matchWildcard(pattern, event) about to be made
InitMatch ==
  /\ \E pattern, event \in Strings :
       ret = [op |-> "call", pattern |-> pattern, event |-> event]
  /\ listeners = EmptyMap
  /\ wildcardListeners = <<>>
  /\ maxListeners = DefaultMaxListeners
  /\ paused = FALSE
  /\ buffer = <<>>
  /\ maxBufferSize = DefaultMaxBufferSize
  /\ handles = <<>>
  /\ stack = <<>>
  /\ suspended = {}
  /\ nextP = 1
  /\ ctorOptions = {}
  /\ observing = {"ret"}
  /\ entered = <<>>
  /\ delivered = EmptyMap
  /\ thrown = {}
  /\ discarded = {}

\* the call returns
callMatch ==
  /\ ret.op = "call"
  /\ ret' = [op |-> "matchWildcard", pattern |-> ret.pattern, event |-> ret.event,
             val |-> matchWildcard(ret.pattern, ret.event)]
  /\ UNCHANGED <<registry, config, paused, buffer, handles, stack, suspended, trace,
                 nextP, thrown, discarded, fixed>>

NextMatch == callMatch

SpecMatch == InitMatch /\ [][NextMatch]_vars

\* Subscriptions to two names and a pattern, removed by off(), clear(),
\* dispose() and once-pruning, the calls made from listeners included.
NextInspect ==
  \/ subscribe({NameA, NameAB, PatStar}, {"f"}, {{}}, {{}})
  \/ \E h \in 1..Len(handles) : off(h)
  \/ \E e \in {NameA, PatStar} : clear(e)
  \/ clearAll
  \/ dispose
  \/ \E e \in EmitNames : emit(e)
  \/ listenerReturns

SpecInspect == InitWith({}, {"live"}) /\ [][NextInspect]_vars

\* Subscriptions with priorities to a name and a pattern, made and ended by
\* off() from the top level and from listeners, and removed by clear(),
\* dispose() and once-pruning.
NextSorted ==
  \/ subscribe({NameA, PatStar}, {"f"}, {{}}, PriorityOpts)
  \/ \E h \in 1..Len(handles) : off(h)
  \/ idle /\ clear(NameA)
  \/ idle /\ dispose
  \/ idle /\ emit(NameA)
  \/ listenerReturns

SpecSorted == InitWith({}, {}) /\ [][NextSorted]_vars

\* pause, the resumes, dispose and the publishes called from the top level,
\* from running listeners and between the awaits of asynchronous dispatches.
NextPauseState ==
  \/ idle /\ on(NameA, "f", {}, {})
  \/ \E e \in {NameA} : emit(e)
  \/ \E e \in {NameA} : emitAsync(e)
  \/ pause
  \/ resume
  \/ resumeAsync
  \/ dispose
  \/ runs

SpecPauseState == InitWith({}, {"delivered", "ret"}) /\ [][NextPauseState]_vars

\* on, off, clear and dispose called while a dispatch of emit or emitAsync
\* is in progress: from a running listener, and from the top level between
\* the awaits of an asynchronous dispatch.
NextSnapshot ==
  \/ \E e \in {NameA, PatStar} : on(e, "f", {}, {})
  \/ \E h \in 1..Len(handles) : off(h)
  \/ clear(NameA)
  \/ dispose
  \/ idle /\ emit(NameA)
  \/ idle /\ emitAsync(NameA)
  \/ runs

SpecSnapshot == InitWith({}, {"delivered", "since"}) /\ [][NextSnapshot]_vars

\* Sequential use of pause, emit, resume and resumeAsync with listeners that
\* throw among the subscriptions.
NextReplayErrors ==
  \/ idle /\ \E fn \in Fns : on(NameA, fn, {}, {})
  \/ idle /\ emit(NameA)
  \/ idle /\ pause
  \/ idle /\ resume
  \/ idle /\ resumeAsync
  \/ runsOrThrows

SpecReplayErrors == InitWith({}, {"entered", "ret", "thrown"}) /\ [][NextReplayErrors]_vars

\* pause() and publishes made while a replay of resume() or resumeAsync() is
\* in progress: by a running listener, or from the top level between the
\* awaits of resumeAsync.
NextPauseInReplay ==
  \/ idle /\ on(NameA, "f", {}, {})
  \/ emit(NameA)
  \/ emitAsync(NameA)
  \/ pause
  \/ idle /\ resume
  \/ idle /\ resumeAsync
  \/ runs

SpecPauseInReplay == InitWith({}, {"entered", "pauses"}) /\ [][NextPauseInReplay]_vars

\* ------------------------------------------------------------------ claims

\* the dispatches in progress
frames == Range(stack) \cup suspended

\* the listeners a dispatch has called so far, in the order of the calls
invoked(f) == SubSeq(f.ls, 1, IF f.i <= Len(f.ls) THEN f.i ELSE Len(f.ls))

\* a dispatch whose listeners are still being called
calling(f) == f.i <= Len(f.ls)

\* the h-th subscription is in a registry
isRegistered(h) ==
  \/ \E e \in DOMAIN listeners : handles[h].stored \in Range(listeners[e])
  \/ \E k \in 1..Len(wildcardListeners) : wildcardListeners[k].stored = handles[h].stored

\* the subscriptions in a registry that an event goes to
matchingIds(event) ==
  {h \in 1..Len(handles) :
     /\ isRegistered(h)
     /\ IF handles[h].isWild THEN matchWildcard(handles[h].event, event)
        ELSE handles[h].event = event}

ids(ls) == {ls[k].id : k \in 1..Len(ls)}

\* the priority the h-th subscription was given; a missing one counts as 0
givenPriority(h) ==
  IF handles[h].given[2] = {} THEN 0 ELSE CHOOSE v \in handles[h].given[2] : TRUE

\* the number of calls of the h-th subscription's listener with payload p
timesCalled(h, p) == mapGetOrZero(delivered, <<h, p>>)

\* the publishes whose dispatch called the h-th subscription's listener
calls(h) == {p \in 1..(nextP - 1) : timesCalled(h, p) > 0}

\* the number of calls of the h-th subscription's listener with payloads 1..p
RECURSIVE sumCalls(_, _)
sumCalls(h, p) == IF p = 0 THEN 0 ELSE timesCalled(h, p) + sumCalls(h, p - 1)

\* the number of calls of the h-th subscription's listener so far
totalCalls(h) == sumCalls(h, nextP - 1)

\* C1: a dispatch calls the matching listeners, all of them and no other, in
\* descending order of the priority given (0 when none was given), and those
\* of equal priority subscribed to the same event name in subscription order.
C1_PriorityOrder ==
  \A f \in frames :
    /\ calling(f) => ids(f.ls) = matchingIds(f.event)
    /\ \A j, k \in 1..Len(invoked(f)) : j < k =>
         LET a == invoked(f)[j].id
             b == invoked(f)[k].id
         IN  /\ givenPriority(a) >= givenPriority(b)
             /\ (givenPriority(a) = givenPriority(b) /\ handles[a].event = handles[b].event)
                  => a < b

\* C1 witness: a listener subscribed later with a higher priority was called
\* first
C1_Witness ==
  \E f \in frames :
    /\ Len(invoked(f)) >= 2
    /\ invoked(f)[1].id > invoked(f)[2].id
    /\ givenPriority(invoked(f)[1].id) > givenPriority(invoked(f)[2].id)

\* C2: a publish on a paused emitter calls no listener and returns false; the
\* event goes to the end of the buffer if the buffer is shorter than
\* maxBufferSize and is dropped otherwise; the registries are unchanged.
C2_PausedPublish ==
  [][\A e \in EmitNames :
       (paused /\ (emit(e) \/ emitAsync(e))) =>
         /\ stack' = stack
         /\ suspended' = suspended
         /\ UNCHANGED trace
         /\ ret'.val = "false"
         /\ buffer' = IF Len(buffer) < maxBufferSize
                      THEN Append(buffer, Entry(e, nextP)) ELSE buffer
         /\ UNCHANGED registry]_vars

\* C2 witness: the buffer is full, its first event has a listener, and the
\* publish that ended last, an emitAsync, was dropped and returned false
C2_Witness ==
  /\ paused
  /\ buffer # <<>>
  /\ Len(buffer) = maxBufferSize
  /\ buffer[Len(buffer)].payload < nextP - 1
  /\ matchingIds(buffer[1].event) # {}
  /\ ret = [op |-> "emitAsync", val |-> "false"]

\* C4: the buffer is never longer than maxBufferSize
C4_BufferBound == Len(buffer) <= maxBufferSize

\* C3: after pause(), N publishes within maxBufferSize and resume(), with
\* listeners that return: the buffer holds every publish made since the first
\* buffered one, in order; none of them is dispatched while it is buffered;
\* resume() dispatches them in that order, and has dispatched exactly them
\* when it returns; no publish is ever dispatched twice.
C3_Replay ==
  /\ [](/\ \A k \in 1..Len(buffer) :
             /\ buffer[k].payload = nextP - 1 - (Len(buffer) - k)
             /\ \A j \in 1..Len(entered) : entered[j] # buffer[k].payload
        /\ \A j, k \in 1..Len(entered) : j < k => entered[j] # entered[k]
        /\ \A f \in frames : f.resume =>
             SubSeq(entered, f.mark + 1, Len(entered)) \o payloads(f.pending) = f.drained)
  /\ [][/\ (stack # <<>> /\ stack' = <<>> /\ top.resume) =>
             SubSeq(entered', top.mark + 1, Len(entered')) = top.drained
        /\ (stack = <<>> /\ stack' = <<>> /\ paused /\ ~paused') =>
             SubSeq(entered', Len(entered) + 1, Len(entered')) = payloads(buffer)]_vars

\* C3 witness: resume() took two events from the buffer and is in a listener
\* of the second, having dispatched the first
C3_Witness ==
  \E f \in frames :
    /\ f.resume
    /\ Len(f.drained) = 2
    /\ f.pending = <<>>
    /\ f.payload = f.drained[2]
    /\ SubSeq(entered, f.mark + 1, Len(entered)) = f.drained

\* C5: in sequential use with listeners that return, a publish on an emitter
\* that is not paused dispatches to every registered matching listener, and a
\* dispatch has called each listener up to its position once; a once-listener
\* is called by at most one publish and once by it, and when no dispatch is
\* in progress a once-listener that was called is in neither registry.
C5_Once ==
  /\ [](/\ \A f \in frames : \A j \in 1..Len(invoked(f)) :
             timesCalled(f.ls[j].id, f.payload) = 1
        /\ \A h \in 1..Len(handles) : handles[h].stored.once =>
             /\ Cardinality(calls(h)) <= 1
             /\ \A p \in calls(h) : timesCalled(h, p) = 1
             /\ (idle /\ calls(h) # {}) => ~isRegistered(h))
  /\ [][\A e \in EmitNames :
          (~paused /\ (emit(e) \/ emitAsync(e)) /\ matchingIds(e) # {}) =>
            /\ stack' # <<>>
            /\ ids(stack'[Len(stack')].ls) = matchingIds(e)]_vars

\* C5 witness: a wildcard once-listener was called by one publish and is in
\* no registry, and a later publish called another listener of the same pattern
C5_Witness ==
  /\ idle
  /\ \E h, g \in 1..Len(handles) : \E p, q \in 1..(nextP - 1) :
       /\ handles[h].stored.once /\ handles[h].isWild
       /\ ~handles[g].stored.once /\ handles[g].event = handles[h].event
       /\ p < q
       /\ calls(h) = {p}
       /\ calls(g) = {p, q}
       /\ ~isRegistered(h)

\* C6: on an emitter without an error handler, when a listener throws in emit
\* or rejects in emitAsync, the call ends with that error (emit throws,
\* emitAsync rejects); the listeners ordered before the failing one were
\* called, and no listener ordered after it is called in that dispatch, then
\* or later.
C6_ErrorPropagates ==
  /\ [](\A t \in thrown : \A j \in 1..Len(t.ls) :
          timesCalled(t.ls[j].id, t.payload) = IF j <= t.i THEN 1 ELSE 0)
  /\ [][\A t \in thrown' \ thrown :
          /\ stack # <<>> /\ t = top /\ stack' = below
          /\ ret' = [op |-> opName(t), val |-> "error"]]_vars

\* C6 witness: an emitAsync rejected with the error of its first listener and
\* left a second listener uncalled
C6_Witness ==
  /\ idle
  /\ ret = [op |-> "emitAsync", val |-> "error"]
  /\ \E t \in thrown :
       /\ t.async /\ t.payload = nextP - 1
       /\ t.i = 1 /\ Len(t.ls) = 2
       /\ timesCalled(t.ls[2].id, t.payload) = 0

\* C7: on an emitter constructed with an onError handler no publish ends with
\* a listener's error, and every listener collected by a dispatch in which a
\* listener failed has been called once the dispatch is over.
C7_ErrorIsolated ==
  ("onError" \in ctorOptions) =>
    /\ ret.val # "error"
    /\ idle => \A t \in thrown : \A j \in 1..Len(t.ls) :
                 timesCalled(t.ls[j].id, t.payload) = 1

\* C8: off() of the h-th handle removes the entry of that subscription and no
\* other: every list keeps its other entries in their order (a list left
\* empty loses its key), and nothing else changes; on a handle whose entry is
\* gone, by off(), pruning, clear() or dispose(), it changes no state.
C8_OffExact ==
  [][\A h \in 1..Len(handles) : off(h) =>
       /\ wildcardListeners' = filterSeq(wildcardListeners,
            {w \in Range(wildcardListeners) : w.stored.id # h})
       /\ DOMAIN listeners' = {e \in DOMAIN listeners :
            \E k \in 1..Len(listeners[e]) : listeners[e][k].id # h}
       /\ \A e \in DOMAIN listeners' : listeners'[e] = filterSeq(listeners[e],
            {x \in Range(listeners[e]) : x.id # h})
       /\ UNCHANGED <<maxListeners, paused, buffer, maxBufferSize, handles, stack,
                      suspended, nextP, entered, delivered, ret, thrown, discarded>>
       /\ ~isRegistered(h) => UNCHANGED vars]_vars

\* C8 witness: of two subscriptions of one callback to one event, the later
\* one was removed by its off() and the earlier one is still registered
C8_Witness ==
  \E h, g \in 1..Len(handles) :
    /\ h < g
    /\ handles[h].event = handles[g].event
    /\ handles[h].stored.fn = handles[g].stored.fn
    /\ ~handles[g].stored.once
    /\ isRegistered(h)
    /\ ~isRegistered(g)

\* C9: replay uses the registries as they are when an event is replayed: no
\* listener has been called with an event that is still in the buffer; a
\* dispatch of resume() has the listeners that are registered and match at
\* that time, whenever they were subscribed, and has called those up to its
\* position once; a listener whose off() was called is in no registry, and a
\* listener that is in no registry is not called.
C9_ReplayRegistry ==
  /\ [](/\ \A k \in 1..Len(buffer) : \A h \in 1..Len(handles) :
             timesCalled(h, buffer[k].payload) = 0
        /\ \A f \in frames : f.resume =>
             /\ ids(f.ls) = matchingIds(f.event)
             /\ \A j \in 1..Len(invoked(f)) : timesCalled(f.ls[j].id, f.payload) = 1
        /\ \A h \in 1..Len(handles) : handles[h].until > 0 => ~isRegistered(h))
  /\ [][/\ \A h \in 1..Len(handles) : \A p \in 1..(nextP - 1) :
             ~isRegistered(h) => timesCalled(h, p)' = timesCalled(h, p)
        /\ (paused /\ ~paused' /\ buffer # <<>> /\ matchingIds(buffer[1].event) # {}) =>
             /\ stack' # <<>>
             /\ stack'[Len(stack')].payload = buffer[1].payload
             /\ ids(stack'[Len(stack')].ls) = matchingIds(buffer[1].event)]_vars

\* C9 witness: of two subscriptions to one event name, the one made before a
\* publish and removed after it was not called with it, and the one made
\* after the publish was
C9_Witness ==
  \E g, h \in 1..Len(handles) : \E p \in 1..(nextP - 1) :
    /\ handles[g].event = handles[h].event
    /\ handles[g].since <= p /\ p < handles[g].until
    /\ ~handles[g].stored.once
    /\ timesCalled(g, p) = 0
    /\ p < handles[h].since
    /\ timesCalled(h, p) = 1

\* C10: in one emitAsync the listeners run one at a time in collected order:
\* the dispatch has called its listeners up to its position once and the
\* later ones not at all; the call of listener k+1 is made by the step that
\* ends the await of listener k; and the dispatch ends, with emitAsync
\* resolving to true, only by the step that ends the await of its last listener.
C10_OneAtATime ==
  /\ [](\A f \in frames : f.async =>
          \A j \in 1..Len(f.ls) :
            timesCalled(f.ls[j].id, f.payload) = IF j <= f.i THEN 1 ELSE 0)
  /\ [][/\ \A g \in frames' :
             (/\ g.async /\ g.i > 1
              /\ timesCalled(g.ls[g.i].id, g.payload)' > timesCalled(g.ls[g.i].id, g.payload))
               => [g EXCEPT !.i = g.i - 1] \in suspended
        /\ \A f \in frames :
             (f.async /\ ~\E g \in frames' : g.payload = f.payload)
               => /\ f \in suspended
                  /\ f.i = Len(f.ls)
                  /\ ret' = [op |-> "emitAsync", val |-> "true"]]_vars

\* C10 witness: an emitAsync with two listeners awaits the second, each was
\* called once, and no call has ended yet
C10_Witness ==
  /\ ret.op = "new"
  /\ \E f \in suspended :
       /\ f.async /\ ~f.resume
       /\ Len(f.ls) = 2 /\ f.i = 2
       /\ timesCalled(f.ls[1].id, f.payload) = 1
       /\ timesCalled(f.ls[2].id, f.payload) = 1

\* the dispatches of a resumeAsync in progress
replaying == {f \in frames : f.resume /\ f.async}

\* C11: resumeAsync dispatches the buffered events in the order they were
\* buffered; while it is in the dispatch of one, the listeners of that
\* dispatch were called up to its position and no listener has been called
\* with a later buffered event; the dispatch of the next event is entered only
\* by the step that ends the await of the finished dispatch of the one before;
\* and resumeAsync ends, resolving to the emitter, only by the step that ends
\* the await of the dispatch of the last buffered event.
C11_ResumeAsyncOrder ==
  /\ [](\A f \in replaying :
          /\ SubSeq(entered, f.mark + 1, Len(entered)) \o payloads(f.pending) = f.drained
          /\ \A j \in 1..Len(f.ls) :
               timesCalled(f.ls[j].id, f.payload) =
                 IF j <= f.i THEN 1 ELSE 0
          /\ \A k \in 1..Len(f.pending) : \A h \in 1..Len(handles) :
               timesCalled(h, f.pending[k].payload) = 0)
  /\ [][/\ \A g \in replaying' :
             (Len(entered') > Len(entered) /\ g.payload # g.drained[1]) =>
               \E f \in suspended :
                 /\ f \in replaying
                 /\ f.i = Len(f.ls) + 1
                 /\ f.pending # <<>>
                 /\ f.pending[1].payload = g.payload
        /\ (replaying # {} /\ replaying' = {}) =>
             \E f \in suspended :
               /\ f \in replaying
               /\ f.i = Len(f.ls) + 1
               /\ f.pending = <<>>
               /\ SubSeq(entered, f.mark + 1, Len(entered)) = f.drained
               /\ ret' = [op |-> "resumeAsync", val |-> "this"]
        /\ (ret' # ret /\ ret' = [op |-> "resumeAsync", val |-> "this"]) =>
             replaying' = {}]_vars

\* C11 witness: resumeAsync took two events from the buffer, finished the
\* dispatch of the first, which had a listener, and awaits the listener of
\* the second
C11_Witness ==
  \E f \in suspended :
    /\ f \in replaying
    /\ Len(f.drained) = 2
    /\ f.payload = f.drained[2]
    /\ f.ls # <<>> /\ f.i = Len(f.ls)
    /\ \E h \in 1..Len(handles) : timesCalled(h, f.drained[1]) = 1
    /\ ret.op # "resumeAsync"

\* C12: the listener of a once-subscription is called at most once, whatever
\* the interleaving of the publishes
C12_OnceAtMostOnce ==
  \A h \in 1..Len(handles) : handles[h].stored.once => totalCalls(h) <= 1

C14_ThrowingOncePruned ==
  ("onError" \in ctorOptions) =>
    \A h \in 1..Len(handles) :
      (handles[h].stored.once /\ handles[h].stored.fn = "boom") =>
        /\ totalCalls(h) <= 1
        /\ (idle /\ totalCalls(h) = 1) => ~isRegistered(h)

\* C15: dispose() leaves both registries and the buffer empty and the emitter
\* not paused, and changes neither maxListeners nor maxBufferSize nor a
\* dispatch in progress; afterwards, as before, a publish on the emitter, not
\* paused, dispatches to the listeners registered and matching then.
C15_Dispose ==
  [][/\ dispose =>
          /\ listeners' = EmptyMap
          /\ wildcardListeners' = <<>>
          /\ buffer' = <<>>
          /\ paused' = FALSE
          /\ UNCHANGED <<maxListeners, maxBufferSize, handles, stack, suspended,
                         nextP, entered, delivered, ret, thrown>>
     /\ \A e \in EmitNames :
          (~paused /\ (emit(e) \/ emitAsync(e)) /\ matchingIds(e) # {}) =>
            /\ stack' # <<>>
            /\ ids(stack'[Len(stack')].ls) = matchingIds(e)
            /\ mapGetOrZero(delivered', <<stack'[Len(stack')].ls[1].id, nextP>>) = 1]_vars

\* C15 witness: an earlier subscription is gone, which only dispose() does
\* here, maxBufferSize still has the value it was set to, and a subscription
\* made after the dispose() is registered and its listener was called
C15_Witness ==
  /\ maxBufferSize # DefaultMaxBufferSize
  /\ ~paused /\ buffer = <<>>
  /\ \E g, h \in 1..Len(handles) :
       /\ g < h
       /\ ~isRegistered(g)
       /\ isRegistered(h)
       /\ totalCalls(h) = 1

\* C16: no listener is ever called with an event that was waiting for replay
\* when dispose() was called
C16_DisposedNeverDelivered ==
  \A p \in discarded : \A h \in 1..Len(handles) : timesCalled(h, p) = 0

\* C17: clear(name) removes the exact list of name and the wildcard entries
\* whose pattern is the string name, and leaves every other exact list, every
\* wildcard entry with another pattern, in order, the buffer, the pause flag
\* and the limits as they were; clear() empties both registries and leaves
\* the buffer, the pause flag and the limits as they were.
C17_Clear ==
  [][/\ \A e \in {NameA, NameAB, PatStar} : clear(e) =>
          /\ DOMAIN listeners' = DOMAIN listeners \ {e}
          /\ \A k \in DOMAIN listeners' : listeners'[k] = listeners[k]
          /\ wildcardListeners' = filterSeq(wildcardListeners,
               {w \in Range(wildcardListeners) : w.pattern # e})
          /\ UNCHANGED <<buffer, paused, maxListeners, maxBufferSize>>
     /\ clearAll =>
          /\ DOMAIN listeners' = {}
          /\ wildcardListeners' = <<>>
          /\ UNCHANGED <<buffer, paused, maxListeners, maxBufferSize>>]_vars

\* C17 witness: with an event buffered on the paused emitter, a subscription
\* to "a" that is not a once-subscription is gone while an earlier one to the
\* pattern "*", which matches "a", is registered: clear("a") removed the one
\* and left the other
C17_Witness ==
  /\ paused /\ buffer # <<>>
  /\ \E h, g \in 1..Len(handles) :
       /\ h < g
       /\ handles[h].event = PatStar /\ isRegistered(h)
       /\ handles[g].event = NameA /\ ~handles[g].stored.once /\ ~isRegistered(g)

\* C18 as stated: an emit of an event that no registered listener matches
\* returns false and leaves the registries, the buffer and the pause flag
\* unchanged, whether the emitter is paused or not
C18_NoMatchNoEffect ==
  [][\A e \in EmitNames : (emit(e) /\ matchingIds(e) = {}) =>
       /\ ret' = [op |-> "emit", val |-> "false"]
       /\ UNCHANGED <<registry, buffer, paused>>]_vars

\* C18 amended: on an emitter that is not paused, an emit of an event that no
\* registered listener matches returns false, calls no listener and leaves the
\* registries, the buffer and the pause flag unchanged; on a paused emitter it
\* returns false and leaves the registries and the pause flag unchanged, and
\* the event is appended to the buffer if there is room.
C18_NoMatchNotPaused ==
  [][\A e \in EmitNames : (emit(e) /\ matchingIds(e) = {}) =>
       /\ ret' = [op |-> "emit", val |-> "false"]
       /\ UNCHANGED <<registry, paused, stack, suspended>>
       /\ buffer' = IF paused /\ Len(buffer) < maxBufferSize
                    THEN Append(buffer, Entry(e, nextP)) ELSE buffer]_vars

\* C18 witness: the call that ended last is an emit that returned false on an
\* emitter that is not paused and has a listener registered
C18_Witness ==
  /\ ~paused
  /\ idle
  /\ nextP > 1
  /\ ret = [op |-> "emit", val |-> "false"]
  /\ wildcardListeners # <<>>

\* a pattern none of whose segments is * or **
noWildcardToken(pattern) ==
  \A k \in 1..Len(split(pattern)) :
    split(pattern)[k] # <<"*">> /\ split(pattern)[k] # <<"*", "*">>

\* C19 as stated: for a pattern without wildcard token, matchWildcard is true
\* exactly when pattern and event are the same string
C19_ExactIsStringEquality ==
  (ret.op = "matchWildcard" /\ noWildcardToken(ret.pattern)) =>
    (ret.val <=> ret.pattern = ret.event)

\* C19 amended: for a pattern without wildcard token, matchWildcard is true
\* exactly when pattern and event have the same segments in the same order,
\* whichever of ':' and '.' separates them
C19_ExactIsSegmentEquality ==
  (ret.op = "matchWildcard" /\ noWildcardToken(ret.pattern)) =>
    (ret.val <=> split(ret.pattern) = split(ret.event))

\* C19 witness: a pattern without wildcard token matched an event that is
\* another string
C19_Witness ==
  /\ ret.op = "matchWildcard"
  /\ noWildcardToken(ret.pattern)
  /\ ret.pattern # ret.event
  /\ Len(split(ret.pattern)) = 2
  /\ ret.val

\* the documented matching: the pattern segments pp divide the event
\* segments ep among them, a literal taking one equal segment, * taking one
\* segment, ** taking one or more
RECURSIVE covers(_, _)
covers(pp, ep) ==
  IF pp = <<>> THEN ep = <<>>
  ELSE IF Head(pp) = <<"*", "*">>
  THEN \E n \in 1..Len(ep) : covers(Tail(pp), SubSeq(ep, n + 1, Len(ep)))
  ELSE /\ ep # <<>>
       /\ (Head(pp) = <<"*">> \/ Head(pp) = Head(ep))
       /\ covers(Tail(pp), Tail(ep))

\* C20: matchWildcard is true exactly when the event's segments can be divided
\* among the pattern's segments, each literal taking one equal segment, each *
\* one segment and each ** one or more segments
C20_MatchIsCover ==
  (ret.op = "matchWildcard") =>
    (ret.val <=> covers(split(ret.pattern), split(ret.event)))

\* a pattern none of whose segments is **
noDoubleStar(pattern) ==
  \A k \in 1..Len(split(pattern)) : split(pattern)[k] # PatStarStar

\* pattern and event have the same number of segments, and each pattern
\* segment is * or equals the event segment at its position
segmentwise(pp, ep) ==
  /\ Len(pp) = Len(ep)
  /\ \A k \in 1..Len(pp) : pp[k] = PatStar \/ pp[k] = ep[k]

\* C21: for a pattern whose segments are literals and * only (no **),
\* matchWildcard is true exactly when pattern and event have the same number
\* of segments and each pattern segment is * or equals the event segment at
\* the same position
C21_StarIsOneSegment ==
  (ret.op = "matchWildcard" /\ noDoubleStar(ret.pattern)) =>
    (ret.val <=> segmentwise(split(ret.pattern), split(ret.event)))

\* C21 witness: a pattern of a * and a literal segment matched an event of
\* two segments
C21_Witness ==
  /\ ret.op = "matchWildcard"
  /\ noDoubleStar(ret.pattern)
  /\ split(ret.pattern) = <<PatStar, <<"a">>>>
  /\ Len(split(ret.event)) = 2
  /\ ret.val

\* the live subscriptions to the exact name: made by on()/once() with that
\* name, a name without *, and not removed since
liveExact(name) ==
  {h \in 1..Len(handles) :
     handles[h].live /\ ~handles[h].isWild /\ handles[h].event = name}

\* C22: eventNames() is the set of the names with at least one live
\* non-wildcard subscription, and listenerCount(name) is the number of live
\* non-wildcard subscriptions to name; wildcard subscriptions count in neither
C22_Inspection ==
  /\ eventNames = {name \in SubNames : liveExact(name) # {}}
  /\ \A name \in SubNames : listenerCount(name) = Cardinality(liveExact(name))

\* C22 witness: after a dispatch pruned the only subscription to a name, a
\* once-subscription, with a subscription to a pattern still live, no name is
\* reported
C22_Witness ==
  /\ idle
  /\ \E h \in 1..Len(handles) :
       ~handles[h].isWild /\ handles[h].stored.once /\ ~handles[h].live
  /\ \E h \in 1..Len(handles) : handles[h].isWild /\ handles[h].live
  /\ nextP > 1
  /\ eventNames = {}

\* C23: among the listeners of equal priority that a dispatch calls, no
\* wildcard listener is called before an exact-name listener, whichever was
\* subscribed first, and the wildcard listeners are called in subscription
\* order
C23_ExactBeforeWildcard ==
  \A f \in frames :
    \A j, k \in 1..Len(invoked(f)) :
      (j < k /\ givenPriority(invoked(f)[j].id) = givenPriority(invoked(f)[k].id)) =>
        LET a == invoked(f)[j].id
            b == invoked(f)[k].id
        IN  /\ ~(handles[a].isWild /\ ~handles[b].isWild)
            /\ (handles[a].isWild /\ handles[b].isWild) => a < b

\* C23 witness: an exact-name listener was called before a wildcard listener
\* of the same priority that was subscribed before it
C23_Witness ==
  \E f \in frames :
    /\ Len(invoked(f)) >= 2
    /\ ~handles[invoked(f)[1].id].isWild
    /\ handles[invoked(f)[2].id].isWild
    /\ invoked(f)[1].id > invoked(f)[2].id
    /\ givenPriority(invoked(f)[1].id) = givenPriority(invoked(f)[2].id)

\* the lists of the registries: one per exact name, and the stored listeners
\* of the wildcard array
registryLists ==
  {listeners[e] : e \in DOMAIN listeners} \cup
  {[k \in 1..Len(wildcardListeners) |-> wildcardListeners[k].stored]}

\* the number of places in the lists of the registries that hold the entry s
RECURSIVE places(_, _)
places(s, names) ==
  IF names = {} THEN Cardinality({k \in 1..Len(wildcardListeners) :
                                    wildcardListeners[k].stored = s})
  ELSE LET e == CHOOSE n \in names : TRUE
       IN  Cardinality({k \in 1..Len(listeners[e]) : listeners[e][k] = s})
             + places(s, names \ {e})

\* C24: every exact-name list and the wildcard list is sorted by
\* non-increasing priority, entries of equal priority in subscription order,
\* and no listener entry is held in more than one place of the lists
C24_ListsSorted ==
  /\ \A list \in registryLists :
       \A j, k \in 1..Len(list) : j < k =>
         /\ list[j].priority >= list[k].priority
         /\ list[j].priority = list[k].priority => list[j].id < list[k].id
  /\ \A h \in 1..Len(handles) : places(handles[h].stored, DOMAIN listeners) <= 1

\* C24 witness: a list of two entries, the one subscribed later with the
\* higher priority first, after a dispatch was made
C24_Witness ==
  /\ nextP > 1
  /\ \E list \in registryLists :
       /\ Len(list) = 2
       /\ list[1].id > list[2].id
       /\ list[1].priority > list[2].priority

\* C25: whenever the emitter is not paused the buffer is empty; the buffer
\* grows only while the emitter is paused, and a step that clears the pause
\* flag leaves the buffer empty; resume() on an emitter that is not paused
\* calls no listener and changes no state, and pause() on a paused emitter
\* changes no state
C25_ActiveBufferEmpty ==
  /\ [](~paused => buffer = <<>>)
  /\ [][/\ Len(buffer') > Len(buffer) => (paused /\ paused')
        /\ (paused /\ ~paused') => buffer' = <<>>
        /\ (~paused /\ resume) =>
             UNCHANGED <<registry, config, paused, buffer, handles, stack, suspended,
                         trace, nextP, thrown, discarded>>
        /\ (paused /\ pause) =>
             UNCHANGED <<registry, config, paused, buffer, handles, stack, suspended,
                         trace, nextP, thrown, discarded>>]_vars

\* C25 witness: a replay is in progress, with an event still to dispatch that
\* resume took from the buffer: the emitter is not paused and the buffer is
\* empty
C25_Witness ==
  /\ ~paused
  /\ buffer = <<>>
  /\ \E f \in frames : f.resume /\ f.pending # <<>>

\* C26: the listeners a dispatch calls, and their order, are fixed when it
\* starts: they are the listeners registered and matching at that moment; the
\* dispatch keeps that list through every step, calls its entries one after
\* the other, each once, and ends only after the last, whether or not an entry
\* is still registered when its turn comes; a listener subscribed after the
\* dispatch started is not called by it
C26_Snapshot ==
  /\ [](\A f \in frames : \A h \in 1..Len(handles) :
          timesCalled(h, f.payload) = IF h \in ids(invoked(f)) THEN 1 ELSE 0)
  /\ [](\A h \in 1..Len(handles) : \A p \in 1..(nextP - 1) :
          handles[h].since > p => timesCalled(h, p) = 0)
  /\ [][/\ \A f \in frames :
             \/ \E g \in frames' :
                  /\ g.payload = f.payload
                  /\ g.event = f.event
                  /\ g.ls = f.ls
                  /\ g.i \in {f.i, f.i + 1}
             \/ /\ f.i = Len(f.ls)
                /\ \A g \in frames' : g.payload # f.payload
        /\ \A g \in frames' :
             (\A f \in frames : f.payload # g.payload) =>
               /\ g.i = 1
               /\ ids(g.ls) = matchingIds(g.event)]_vars

\* C26 witness: a dispatch has called its second listener, whose subscription
\* is in no registry, while that of its first listener still is
C26_Witness ==
  \E f \in frames :
    /\ f.i = 2
    /\ timesCalled(f.ls[2].id, f.payload) = 1
    /\ ~isRegistered(f.ls[2].id)
    /\ isRegistered(f.ls[1].id)

\* C27: when a listener throws during the replay of resume() or rejects
\* during that of resumeAsync(), the call ends with that error at once, the
\* emitter is left not paused with an empty buffer, and the events the resume
\* had drained and not yet dispatched are dispatched neither then nor later,
\* and are in no buffer for a later resume
C27_ReplayAborted ==
  /\ [](\A t \in thrown : t.resume =>
          \A k \in 1..Len(t.pending) :
            /\ t.pending[k].payload \notin waiting
            /\ t.pending[k].payload \notin Range(entered))
  /\ [][\A t \in thrown' \ thrown : t.resume =>
          /\ stack # <<>> /\ t = top /\ stack' = below
          /\ ret' = [op |-> opName(t), val |-> "error"]
          /\ ~paused'
          /\ buffer' = <<>>]_vars

\* C27 witness: a resume() ended with the error of a listener while an event
\* it had drained was still to dispatch; a later resume() has returned and the
\* event was not dispatched
C27_Witness ==
  /\ idle
  /\ ret = [op |-> "resume", val |-> "this"]
  /\ \E t \in thrown :
       /\ t.resume /\ ~t.async
       /\ t.pending # <<>>
       /\ t.pending[1].payload \notin Range(entered)

\* the dispatches entered since the replay f started, of the events f drained
sinceStart(f, es) ==
  SelectSeq(SubSeq(es, f.mark + 1, Len(es)), LAMBDA p : p \in Range(f.drained))

\* the replay f is still in progress in the next state
goesOn(f) ==
  \E g \in Range(stack') \cup suspended' :
    g.resume /\ g.async = f.async /\ g.drained = f.drained /\ g.mark = f.mark

\* C28: a replay in progress dispatches the events it drained in their order
\* whether or not the emitter has been paused meanwhile, and ends only when
\* all of them were dispatched; an event in the buffer has not been
\* dispatched, and a publish on the paused emitter, during a replay too, is
\* appended to the buffer and enters no dispatch
C28_PauseInReplay ==
  /\ [](/\ \A f \in frames : f.resume =>
             sinceStart(f, entered) \o payloads(f.pending) = f.drained
        /\ \A k \in 1..Len(buffer) : buffer[k].payload \notin Range(entered))
  /\ [][/\ \A f \in frames : (f.resume /\ ~goesOn(f)) =>
             sinceStart(f, entered') = f.drained
        /\ (paused /\ nextP' > nextP) =>
             /\ buffer' = Append(buffer, Entry(NameA, nextP))
             /\ UNCHANGED <<stack, suspended, entered>>]_vars

\* C28 witness: a replay of two events entered the dispatch of the first, the
\* emitter was paused, and the replay has entered the dispatch of the second
\* and called its listener
C28_Witness ==
  \E f \in frames :
    /\ f.resume
    /\ paused
    /\ Len(f.drained) = 2
    /\ f.ls # <<>>
    /\ SubSeq(entered, f.mark + 1, Len(entered)) = <<f.drained[1], 0, f.drained[2]>>

====
